---------------------------- MODULE Spec2Model ----------------------------
(***************************************************************************)
(* Gesture classification and temporal confirmation pipeline of AdaptEd    *)
(* (section 12 of the page script, "GESTURE RECOGNITION").                 *)
(*                                                                         *)
(* Coordinates are integers in hundredths of the normalised frame, so the  *)
(* comparisons of the classifier are exact.  Distances are compared by     *)
(* their squares: d < 0.06 iff d*d < 0.0036, i.e. 36 in squared units.     *)
(* The clock `now` is Date.now() counted in ms from the first state.       *)
(***************************************************************************)
EXTENDS Integers, Sequences, FiniteSets, TLC

(* ------------------------------ bounds -------------------------------- *)
\* the clock stops advancing after this many tenths of a second
MaxTicks == 13
MaxTime == MaxTicks * 100
\* number of frames recorded since the page was loaded
MaxLog == 6
\* number of calls of startGestureRecognition
MaxStarts == 2
\* the clock of a camera session stops after this many detector results
MaxSessionTicks == 4

(* ------------------------- program constants -------------------------- *)
GESTURE_CONFIRM_FRAMES == 3
GESTURE_DEBOUNCE_MS == 800
DEBOUNCE_MS == 1200
PINCH_DIST_SQ == 36
OK_DIST_SQ == 49

\* JavaScript null
null == "null"

(* --------------------------- the classifier --------------------------- *)
Abs(n) == IF n < 0 THEN 0 - n ELSE n

\* an absent z is not replaced: the difference is NaN and no distance is
\* below a threshold
ZOf_AbsentIsNaN(a) == IF "z" \in DOMAIN a THEN a.z ELSE 1000
\* (a.z || 0): an absent z counts as 0
ZOf(a) == IF "z" \in DOMAIN a THEN a.z ELSE 0

\* the distance in the image plane, z left out
landmarkDistSq_IgnoresZ(a, b) ==
    (a.x - b.x) * (a.x - b.x) + (a.y - b.y) * (a.y - b.y)
\* square of landmarkDist(a, b)
landmarkDistSq(a, b) ==
    (a.x - b.x) * (a.x - b.x) + (a.y - b.y) * (a.y - b.y)
        + (ZOf(a) - ZOf(b)) * (ZOf(a) - ZOf(b))

tips == <<8, 12, 16, 20>>
pips == <<6, 10, 14, 18>>

fingersExtendedOf(landmarks) ==
    [i \in 1..4 |-> landmarks[tips[i]].y < landmarks[pips[i]].y]

\* a thumb tip exactly as far out as landmark 3 counts as extended
thumbExtendedOf_Inclusive(landmarks) ==
    Abs(landmarks[4].x - landmarks[2].x) >= Abs(landmarks[3].x - landmarks[2].x)
thumbExtendedOf(landmarks) ==
    Abs(landmarks[4].x - landmarks[2].x) > Abs(landmarks[3].x - landmarks[2].x)

\* the y axis read upside down
thumbPointingUpOf_Inverted(landmarks) == landmarks[4].y > landmarks[0].y
thumbPointingUpOf(landmarks) == landmarks[4].y < landmarks[0].y

\* the pinky is left out of the count
extendedCountOf_SkipsPinky(landmarks) ==
    Cardinality({i \in 1..3 : fingersExtendedOf(landmarks)[i]})
extendedCountOf(landmarks) ==
    Cardinality({i \in 1..4 : fingersExtendedOf(landmarks)[i]})

\* the result carries its name where its action belongs
Gesture_ActionIsName(n, a) == [name |-> n, action |-> n]
Gesture(n, a) == [name |-> n, action |-> a]

\* the L-Shape rule is tried before the Pointing rule
classifyGesture_LShapeFirst(landmarks) ==
    LET fe == fingersExtendedOf(landmarks)
        thumbExtended == thumbExtendedOf(landmarks)
        thumbPointingUp == thumbPointingUpOf(landmarks)
        extendedCount == extendedCountOf(landmarks)
        pinchDist == landmarkDistSq(landmarks[4], landmarks[8])
        okDist == landmarkDistSq(landmarks[4], landmarks[8])
    IN  IF extendedCount >= 4 /\ thumbExtended
          THEN Gesture("Open Palm", "stop")
        ELSE IF thumbExtended /\ thumbPointingUp /\ extendedCount = 0
                /\ landmarks[4].y < landmarks[5].y
          THEN Gesture("Thumbs Up", "confirm")
        ELSE IF thumbExtended /\ ~thumbPointingUp /\ extendedCount = 0
                /\ landmarks[4].y > landmarks[3].y
          THEN Gesture("Thumbs Down", "reject")
        ELSE IF extendedCount = 0 /\ ~thumbExtended
          THEN Gesture("Fist", "start")
        ELSE IF pinchDist < PINCH_DIST_SQ /\ ~fe[2] /\ ~fe[3] /\ ~fe[4]
          THEN Gesture("Pinch", "zoom")
        ELSE IF okDist < OK_DIST_SQ /\ fe[2] /\ fe[3] /\ fe[4]
          THEN Gesture("OK Sign", "toggle-theme")
        ELSE IF fe[1] /\ fe[2] /\ ~fe[3] /\ ~fe[4]
          THEN Gesture("Peace Sign", "scroll")
        ELSE IF thumbExtended /\ fe[1] /\ ~fe[2] /\ ~fe[3] /\ ~fe[4]
          THEN Gesture("L-Shape", "prev-section")
        ELSE IF fe[1] /\ ~fe[2] /\ ~fe[3] /\ ~fe[4]
          THEN Gesture("Pointing", "point")
        ELSE IF fe[1] /\ fe[2] /\ fe[3] /\ ~fe[4]
          THEN Gesture("Three Fingers", "scroll-up")
        ELSE IF extendedCount >= 4 /\ ~thumbExtended
          THEN Gesture("Four Fingers", "next-section")
        ELSE IF fe[1] /\ ~fe[2] /\ ~fe[3] /\ fe[4]
          THEN Gesture("Rock On", "top")
        ELSE IF thumbExtended /\ ~fe[1] /\ ~fe[2] /\ ~fe[3] /\ fe[4]
          THEN Gesture("Hang Loose", "bottom")
        ELSE Gesture("Unknown", null)
\* the ordered if-chain of classifyGesture; fingersExtended[k] of the source
\* is fe[k+1] here
classifyGesture(landmarks) ==
    LET fe == fingersExtendedOf(landmarks)
        thumbExtended == thumbExtendedOf(landmarks)
        thumbPointingUp == thumbPointingUpOf(landmarks)
        extendedCount == extendedCountOf(landmarks)
        pinchDist == landmarkDistSq(landmarks[4], landmarks[8])
        okDist == landmarkDistSq(landmarks[4], landmarks[8])
    IN  IF extendedCount >= 4 /\ thumbExtended
          THEN Gesture("Open Palm", "stop")
        ELSE IF thumbExtended /\ thumbPointingUp /\ extendedCount = 0
                /\ landmarks[4].y < landmarks[5].y
          THEN Gesture("Thumbs Up", "confirm")
        ELSE IF thumbExtended /\ ~thumbPointingUp /\ extendedCount = 0
                /\ landmarks[4].y > landmarks[3].y
          THEN Gesture("Thumbs Down", "reject")
        ELSE IF extendedCount = 0 /\ ~thumbExtended
          THEN Gesture("Fist", "start")
        ELSE IF pinchDist < PINCH_DIST_SQ /\ ~fe[2] /\ ~fe[3] /\ ~fe[4]
          THEN Gesture("Pinch", "zoom")
        ELSE IF okDist < OK_DIST_SQ /\ fe[2] /\ fe[3] /\ fe[4]
          THEN Gesture("OK Sign", "toggle-theme")
        ELSE IF fe[1] /\ fe[2] /\ ~fe[3] /\ ~fe[4]
          THEN Gesture("Peace Sign", "scroll")
        ELSE IF fe[1] /\ ~fe[2] /\ ~fe[3] /\ ~fe[4]
          THEN Gesture("Pointing", "point")
        ELSE IF fe[1] /\ fe[2] /\ fe[3] /\ ~fe[4]
          THEN Gesture("Three Fingers", "scroll-up")
        ELSE IF thumbExtended /\ fe[1] /\ ~fe[2] /\ ~fe[3] /\ ~fe[4]
          THEN Gesture("L-Shape", "prev-section")
        ELSE IF extendedCount >= 4 /\ ~thumbExtended
          THEN Gesture("Four Fingers", "next-section")
        ELSE IF fe[1] /\ ~fe[2] /\ ~fe[3] /\ fe[4]
          THEN Gesture("Rock On", "top")
        ELSE IF thumbExtended /\ ~fe[1] /\ ~fe[2] /\ ~fe[3] /\ fe[4]
          THEN Gesture("Hang Loose", "bottom")
        ELSE Gesture("Unknown", null)

(* ------------------------------- hands -------------------------------- *)
\* A hand with the given features: ext[i] says whether finger i's tip is
\* above its PIP joint, spread is |thumb tip x - landmark 2 x| (landmark 3
\* lies 5 from landmark 2), wristDy, mcpDy and ipDy place the wrist, the
\* index MCP and landmark 3 below (+) or above (-) the thumb tip, gap is the
\* x distance from thumb tip to index tip, and withZ says whether the
\* detector supplied a z coordinate.
Point(px, py, withZ) ==
    IF withZ THEN [x |-> px, y |-> py, z |-> 0] ELSE [x |-> px, y |-> py]

HandOf(ext, spread, wristDy, mcpDy, ipDy, gap, withZ) ==
    LET ty == 50
        tx == 40 + spread
        tipY(i) == IF i = 1 THEN ty ELSE 40
        finger(i) == (i - 5) \div 4      \* landmarks 5..20: finger 0..3
    IN  [k \in 0..20 |->
            CASE k = 0 -> Point(50, ty + wristDy, withZ)
              [] k = 2 -> Point(40, 60, withZ)
              [] k = 3 -> Point(45, ty + ipDy, withZ)
              [] k = 4 -> Point(tx, ty, withZ)
              [] k = 5 -> Point(55, ty + mcpDy, withZ)
              [] k \in {8, 12, 16, 20} ->
                    Point(IF k = 8 THEN tx + gap ELSE 50 + k,
                          tipY(finger(k) + 1), withZ)
              [] k \in {6, 10, 14, 18} ->
                    Point(50 + k,
                          IF ext[finger(k) + 1]
                            THEN tipY(finger(k) + 1) + 10
                            ELSE tipY(finger(k) + 1) - 10,
                          withZ)
              [] OTHER -> Point(50 + k, 50, withZ)]

PalmHand == HandOf(<<TRUE, TRUE, TRUE, TRUE>>, 12, 10, 5, 3, 20, TRUE)
FistHand == HandOf(<<FALSE, FALSE, FALSE, FALSE>>, 3, 10, 5, 3, 20, FALSE)
PinkyHand == HandOf(<<FALSE, FALSE, FALSE, TRUE>>, 3, 10, 5, 3, 20, TRUE)

\* the hands the detector delivers in this model
SampleHands == {PalmHand, FistHand, PinkyHand}

\* which of the four fingers are extended
Fingers == {<<a, b, c, d>> : a \in BOOLEAN, b \in BOOLEAN, c \in BOOLEAN, d \in BOOLEAN}

\* hands for every label: any fingers, the thumb tucked or spread, pointing
\* up or down, its tip next to the index tip or away from it
EventHands ==
    {HandOf(ext, IF out THEN 12 ELSE 3, IF up THEN 10 ELSE -10,
            IF up THEN 5 ELSE -5, IF up THEN 3 ELSE -3,
            IF close THEN 5 ELSE 20, TRUE) :
        ext \in Fingers, out \in BOOLEAN, up \in BOOLEAN, close \in BOOLEAN}

\* classifyGesture(landmarks), tabulated over the hands of the model
rawGestureOf == [h \in SampleHands \cup EventHands |-> classifyGesture(h)]

\* the names of the sample hands whose gesture has an action
KnownNames == {rawGestureOf[h].name :
                  h \in {g \in SampleHands : rawGestureOf[g].action # null}}

\* time between two deliveries of detector results, in ms
Deltas == {100, 200}

\* the gestures GestureModule tells apart
ModuleGestures == {"open_palm", "fist", "two_fingers"}

(* ------------------------------- state -------------------------------- *)
VARIABLES
    gestureCamera,      \* null, or the running Camera of the session
    gestureBuffer,      \* names of the last raw gestures, oldest first
    confirmedGesture,   \* name confirmed last, or null
    lastGesture,        \* name executed last, '' at first
    gestureDebounce,    \* Date.now() of the last executed gesture
    now,                \* Date.now()
    \* history variables, written by the handlers and read by no handler
    confirmedNow,       \* <<g>> if the latest frame confirmed g, else <<>>
    emitted,            \* <<g>> if the latest frame executed g, else <<>>
    hist,               \* the last GESTURE_CONFIRM_FRAMES events
    log,                \* <<raw, confirmed, executed>> names, per frame
    logging,            \* log is complete: no stop, at most MaxLog frames
    lastEmitAt,         \* per name, when it was executed last (-1: never)
    prevEmitAt,         \* lastEmitAt before the latest step
    sessionEmits,       \* a gesture was executed since the last start
    runEmits,           \* executions in the current run of equal frames
    dropped,            \* name whose confirmation the debounce check has
                        \* dropped, while every frame since carried it
    interrupted,        \* frames with other names came since
                        \* confirmedGesture got its value
    \* one call of classifyGesture and a later call with the same hand
    hand,               \* the hand passed to classifyGesture, <<>> if none
    classified,         \* <<g>> once classifyGesture(hand) returned g
    classifiedAgain,    \* <<g>> once it returned g a second time
    classifiedAt,       \* Date.now() at the first call, -1 before it
    \* camera sessions
    gestureStream,      \* null, or the MediaStream of getUserMedia
    eyeTrackingActive,  \* eye tracking holds the camera
    gestureStartShown,  \* gestureStartBtn is displayed, gestureStopBtn is not
    startPc,            \* per call of startGestureRecognition, where it is
    cameras,            \* per call, the state of the Camera it created
    liveStreams,        \* calls whose MediaStream has running tracks
    gestureFrameCount,  \* per call, gestureFrameCount modulo 2
    framesSeen,         \* per call, the camera frames so far: counted up
                        \* to 2 * GESTURE_CONFIRM_FRAMES, then 5, 6, 5, ...
    emitFrame,          \* framesSeen of the call whose result the latest
                        \* step executed a gesture for, 0 if it executed none
    inFlight,           \* calls whose hands.send has not delivered yet
    stopped,            \* stopGestureRecognition ran and no start since
    \* audio features
    sttListening,       \* speech-to-text holds the microphone
    voiceNavActive,     \* voice navigation holds the microphone
    captionActive,      \* live captions hold the microphone
    recognition,        \* per feature, the state of its SpeechRecognition
    restartTimers,      \* features whose onend scheduled a restart
    dictationTimer,     \* 'start dictation' scheduled startSTT
    \* GestureModule of the learner dashboard
    isDetecting,        \* GestureModule.isDetecting
    camera,             \* GestureModule.camera: null, stopped or started
    moduleLastGesture,  \* GestureModule.lastGesture
    lastGestureTime,    \* GestureModule.lastGestureTime
    sending,            \* onFrame awaits hands.send
    handled,            \* <<g>> if the latest step called handleGesture(g)
    called,             \* <<g>> if the latest step passed g to the callback
    calledSame,         \* that call repeated GestureModule.lastGesture
    calledAt,           \* per gesture, when the callback got it last
    prevCalledAt        \* calledAt before the latest step

progVars == <<gestureCamera, gestureBuffer, confirmedGesture, lastGesture,
              gestureDebounce, now>>
histVars == <<confirmedNow, emitted, hist, log, logging, lastEmitAt,
              prevEmitAt, sessionEmits, runEmits, dropped, interrupted>>
classVars == <<hand, classified, classifiedAgain, classifiedAt>>
sessionVars == <<gestureStream, eyeTrackingActive, gestureStartShown, startPc,
                 cameras, liveStreams, gestureFrameCount, framesSeen,
                 emitFrame, inFlight, stopped>>
\* the variables the gesture pipeline leaves alone
audioVars == <<sttListening, voiceNavActive, captionActive, recognition,
               restartTimers, dictationTimer>>
moduleVars == <<isDetecting, camera, moduleLastGesture, lastGestureTime,
                sending, handled, called, calledSame, calledAt,
                prevCalledAt>>
otherVars == <<classVars, sessionVars, audioVars, moduleVars>>
pipeVars == <<progVars, histVars>>
vars == <<gestureCamera, gestureBuffer, confirmedGesture, lastGesture,
          gestureDebounce, now, confirmedNow, emitted, hist, log, logging,
          lastEmitAt, prevEmitAt, sessionEmits, runEmits, dropped,
          interrupted, otherVars>>

(* ------------------------ confirmation engine ------------------------- *)
\* pushGesture shifting as soon as the window is full
pushGesture_OffByOne(buffer, name) ==
    LET pushed == Append(buffer, name)
    IN  IF Len(pushed) >= GESTURE_CONFIRM_FRAMES THEN Tail(pushed) ELSE pushed

\* gestureBuffer.push(name), then shift() when longer than the window
pushGesture(buffer, name) ==
    LET pushed == Append(buffer, name)
    IN  IF Len(pushed) > GESTURE_CONFIRM_FRAMES THEN Tail(pushed) ELSE pushed

\* gestureBuffer.every(g => g === name)
everyEquals(buffer, name) == \A i \in 1..Len(buffer) : buffer[i] = name

\* getSmoothedGesture without the test that the window is full
getSmoothedGesture_NoLengthCheck(buffer, confirmed, currentGesture) ==
    LET buf == pushGesture(buffer, currentGesture.name)
    IN  IF /\ everyEquals(buf, currentGesture.name)
           /\ confirmed # currentGesture.name
          THEN [gestureBuffer |-> buf,
                confirmedGesture |-> currentGesture.name,
                result |-> <<currentGesture>>]
          ELSE [gestureBuffer |-> buf,
                confirmedGesture |-> confirmed,
                result |-> <<>>]

\* getSmoothedGesture without the test against confirmedGesture
getSmoothedGesture_NoEdge(buffer, confirmed, currentGesture) ==
    LET buf == pushGesture(buffer, currentGesture.name)
    IN  IF /\ Len(buf) = GESTURE_CONFIRM_FRAMES
           /\ everyEquals(buf, currentGesture.name)
          THEN [gestureBuffer |-> buf,
                confirmedGesture |-> currentGesture.name,
                result |-> <<currentGesture>>]
          ELSE [gestureBuffer |-> buf,
                confirmedGesture |-> confirmed,
                result |-> <<>>]

\* getSmoothedGesture: the new buffer, the new confirmedGesture and the
\* returned value (<<currentGesture>>, or <<>> for null)
getSmoothedGesture(buffer, confirmed, currentGesture) ==
    LET buf == pushGesture(buffer, currentGesture.name)
    IN  IF /\ Len(buf) = GESTURE_CONFIRM_FRAMES
           /\ everyEquals(buf, currentGesture.name)
           /\ confirmed # currentGesture.name
          THEN [gestureBuffer |-> buf,
                confirmedGesture |-> currentGesture.name,
                result |-> <<currentGesture>>]
          ELSE [gestureBuffer |-> buf,
                confirmedGesture |-> confirmed,
                result |-> <<>>]

\* executeGestureAction with <= in place of <
executeGestureAction_Inclusive(gesture, t, lastG, debounce) ==
    IF gesture.name = lastG /\ t - debounce <= GESTURE_DEBOUNCE_MS
      THEN [lastGesture |-> lastG, gestureDebounce |-> debounce,
            executed |-> <<>>]
      ELSE [lastGesture |-> gesture.name, gestureDebounce |-> t,
            executed |-> <<gesture>>]

\* executeGestureAction without the debounce check
executeGestureAction_NoDebounce(gesture, t, lastG, debounce) ==
    [lastGesture |-> gesture.name, gestureDebounce |-> t,
     executed |-> <<gesture>>]

\* executeGestureAction with a window of half the length
executeGestureAction_ShortWindow(gesture, t, lastG, debounce) ==
    IF gesture.name = lastG /\ 2 * (t - debounce) < GESTURE_DEBOUNCE_MS
      THEN [lastGesture |-> lastG, gestureDebounce |-> debounce,
            executed |-> <<>>]
      ELSE [lastGesture |-> gesture.name, gestureDebounce |-> t,
            executed |-> <<gesture>>]

\* executeGestureAction debouncing whatever the name
executeGestureAction_IgnoresName(gesture, t, lastG, debounce) ==
    IF lastG # "" /\ t - debounce < GESTURE_DEBOUNCE_MS
      THEN [lastGesture |-> lastG, gestureDebounce |-> debounce,
            executed |-> <<>>]
      ELSE [lastGesture |-> gesture.name, gestureDebounce |-> t,
            executed |-> <<gesture>>]

\* executeGestureAction at time t: the new lastGesture and gestureDebounce
\* and the gesture whose action ran (<<>> when the debounce check returned)
executeGestureAction(gesture, t, lastG, debounce) ==
    IF gesture.name = lastG /\ t - debounce < GESTURE_DEBOUNCE_MS
      THEN [lastGesture |-> lastG, gestureDebounce |-> debounce,
            executed |-> <<>>]
      ELSE [lastGesture |-> gesture.name, gestureDebounce |-> t,
            executed |-> <<gesture>>]

\* a test that lets the null action through
Truthy_NullPasses(a) == a # ""

\* if (rawGesture.action): null and '' are falsy
Truthy(a) == a # null /\ a # ""

\* hands.onResults, a hand whose gesture has an action: smooth, and execute
\* what is confirmed
onKnownGesture(rawGesture, t, buffer, confirmed, lastG, debounce) ==
    LET sm == getSmoothedGesture(buffer, confirmed, rawGesture)
        ex == IF sm.result # <<>>
                THEN executeGestureAction(sm.result[1], t, lastG, debounce)
                ELSE [lastGesture |-> lastG, gestureDebounce |-> debounce,
                      executed |-> <<>>]
    IN  [gestureBuffer |-> sm.gestureBuffer,
         confirmedGesture |-> sm.confirmedGesture,
         lastGesture |-> ex.lastGesture,
         gestureDebounce |-> ex.gestureDebounce,
         raw |-> rawGesture.name,
         confirmedNow |-> sm.result,
         executed |-> ex.executed]

\* onUnknownGesture clearing the window but not confirmedGesture
onUnknownGesture_KeepsConfirmed(rawGesture, buffer, confirmed, lastG, debounce) ==
    [gestureBuffer |-> <<>>, confirmedGesture |-> confirmed,
     lastGesture |-> lastG, gestureDebounce |-> debounce,
     raw |-> rawGesture.name, confirmedNow |-> <<>>, executed |-> <<>>]

\* hands.onResults, a hand whose gesture has no action ('Show a gesture')
onUnknownGesture(rawGesture, buffer, confirmed, lastG, debounce) ==
    [gestureBuffer |-> <<>>, confirmedGesture |-> null,
     lastGesture |-> lastG, gestureDebounce |-> debounce,
     raw |-> rawGesture.name, confirmedNow |-> <<>>, executed |-> <<>>]

\* onNoHand forgetting the last execution as well
onNoHand_ClearsDebounce(buffer, confirmed, lastG, debounce) ==
    [gestureBuffer |-> <<>>, confirmedGesture |-> null,
     lastGesture |-> "", gestureDebounce |-> 0,
     raw |-> "NoHand", confirmedNow |-> <<>>, executed |-> <<>>]

\* onNoHand leaving the window as it is
onNoHand_KeepsWindow(buffer, confirmed, lastG, debounce) ==
    [gestureBuffer |-> buffer, confirmedGesture |-> confirmed,
     lastGesture |-> lastG, gestureDebounce |-> debounce,
     raw |-> "NoHand", confirmedNow |-> <<>>, executed |-> <<>>]

\* hands.onResults, no hand ('No hand detected')
onNoHand(buffer, confirmed, lastG, debounce) ==
    [gestureBuffer |-> <<>>, confirmedGesture |-> null,
     lastGesture |-> lastG, gestureDebounce |-> debounce,
     raw |-> "NoHand", confirmedNow |-> <<>>, executed |-> <<>>]

\* the state hands.onResults leaves at time t: results is
\* results.multiHandLandmarks, <<>> or <<hand>> (maxNumHands: 1)
onResults(results, t, buffer, confirmed, lastG, debounce) ==
    IF Len(results) > 0
      THEN LET rawGesture == rawGestureOf[results[1]]
           IN  IF Truthy(rawGesture.action)
                 THEN onKnownGesture(rawGesture, t, buffer, confirmed, lastG,
                                     debounce)
                 ELSE onUnknownGesture(rawGesture, buffer, confirmed, lastG,
                                       debounce)
      ELSE onNoHand(buffer, confirmed, lastG, debounce)

\* stopGestureRecognition emptying the window only
stopGestureRecognition_KeepsConfirmed(buffer, confirmed, lastG, debounce) ==
    [gestureCamera |-> null, gestureBuffer |-> <<>>,
     confirmedGesture |-> confirmed, lastGesture |-> lastG,
     gestureDebounce |-> debounce]

\* the fields stopGestureRecognition assigns
stopGestureRecognition(buffer, confirmed, lastG, debounce) ==
    [gestureCamera |-> null, gestureBuffer |-> <<>>,
     confirmedGesture |-> null, lastGesture |-> lastG,
     gestureDebounce |-> debounce]

(* ------------------------------ history ------------------------------- *)
pushHist(h, e) ==
    LET pushed == Append(h, e)
    IN  IF Len(pushed) > GESTURE_CONFIRM_FRAMES THEN Tail(pushed) ELSE pushed

nameOf(ev) == IF ev = <<>> THEN "" ELSE ev[1].name

\* the frame continues a run of frames with one known name
sameRun(h, raw) ==
    raw \notin {"Unknown", "NoHand"} /\ Len(h) > 0 /\ h[Len(h)] = raw

\* the name executed last according to the times in at ("" if none)
LastEmitted(at) ==
    IF \A n \in DOMAIN at : at[n] < 0
      THEN ""
      ELSE CHOOSE n \in DOMAIN at : \A m \in DOMAIN at : at[m] <= at[n]

(* ------------------------------ actions ------------------------------- *)
Init ==
    /\ gestureCamera = null
    /\ gestureBuffer = <<>>
    /\ confirmedGesture = null
    /\ lastGesture = ""
    /\ gestureDebounce = 0
    /\ now = 0
    /\ confirmedNow = <<>>
    /\ emitted = <<>>
    /\ hist = <<>>
    /\ log = <<>>
    /\ logging = TRUE
    /\ lastEmitAt = [n \in KnownNames |-> -1]
    /\ prevEmitAt = [n \in KnownNames |-> -1]
    /\ sessionEmits = FALSE
    /\ runEmits = 0
    /\ dropped = null
    /\ interrupted = FALSE
    /\ hand = <<>>
    /\ classified = <<>>
    /\ classifiedAgain = <<>>
    /\ classifiedAt = -1
    /\ gestureStream = null
    /\ eyeTrackingActive = FALSE
    /\ gestureStartShown = TRUE
    /\ startPc = [i \in 1..MaxStarts |-> "idle"]
    /\ cameras = [i \in 1..MaxStarts |-> "none"]
    /\ liveStreams = {}
    /\ gestureFrameCount = [i \in 1..MaxStarts |-> 0]
    /\ framesSeen = [i \in 1..MaxStarts |-> 0]
    /\ emitFrame = 0
    /\ inFlight = {}
    /\ stopped = FALSE
    /\ sttListening = FALSE
    /\ voiceNavActive = FALSE
    /\ captionActive = FALSE
    /\ recognition = [f \in {"stt", "voiceNav", "caption"} |-> "idle"]
    /\ restartTimers = {}
    /\ dictationTimer = FALSE
    /\ isDetecting = FALSE
    /\ camera = null
    /\ moduleLastGesture = null
    /\ lastGestureTime = 0
    /\ sending = FALSE
    /\ handled = <<>>
    /\ called = <<>>
    /\ calledSame = FALSE
    /\ calledAt = [g \in ModuleGestures |-> -1]
    /\ prevCalledAt = [g \in ModuleGestures |-> -1]

\* click on gestureStartBtn, shown while no camera runs; the camera starts
StartGestureRecognition ==
    /\ gestureCamera = null
    /\ gestureCamera' = "camera"
    /\ sessionEmits' = FALSE
    /\ confirmedNow' = <<>>
    /\ emitted' = <<>>
    /\ prevEmitAt' = lastEmitAt
    /\ UNCHANGED <<gestureBuffer, confirmedGesture, lastGesture,
                   gestureDebounce, now, hist, log, logging, lastEmitAt,
                   runEmits, dropped, interrupted, otherVars>>

\* click on gestureStopBtn, or stopCameraFeatures('eye')
StopGestureRecognition ==
    LET s == stopGestureRecognition(gestureBuffer, confirmedGesture,
                                    lastGesture, gestureDebounce)
    IN  /\ gestureCamera' = s.gestureCamera
        /\ gestureBuffer' = s.gestureBuffer
        /\ confirmedGesture' = s.confirmedGesture
        /\ lastGesture' = s.lastGesture
        /\ gestureDebounce' = s.gestureDebounce
        /\ confirmedNow' = <<>>
        /\ emitted' = <<>>
        /\ hist' = pushHist(hist, "Stop")
        /\ log' = <<>>
        /\ logging' = FALSE
        /\ prevEmitAt' = lastEmitAt
        /\ runEmits' = 0
        /\ dropped' = null
        /\ interrupted' = FALSE
        /\ UNCHANGED <<now, lastEmitAt, sessionEmits, otherVars>>

\* the detector delivers the results of one frame, d ms after the last one;
\* results are delivered while the camera of the session runs
OnResults(d, results) ==
    /\ gestureCamera # null
    /\ now + d <= MaxTime
    /\ LET r == onResults(results, now + d, gestureBuffer, confirmedGesture,
                          lastGesture, gestureDebounce)
       IN  /\ now' = now + d
           /\ gestureBuffer' = r.gestureBuffer
           /\ confirmedGesture' = r.confirmedGesture
           /\ lastGesture' = r.lastGesture
           /\ gestureDebounce' = r.gestureDebounce
           /\ confirmedNow' = r.confirmedNow
           /\ emitted' = r.executed
           /\ hist' = pushHist(hist, r.raw)
           /\ IF logging /\ Len(log) < MaxLog
                THEN /\ log' = Append(log, <<r.raw, nameOf(r.confirmedNow),
                                          nameOf(r.executed)>>)
                     /\ logging' = TRUE
                ELSE /\ log' = <<>>
                     /\ logging' = FALSE
           /\ lastEmitAt' = IF r.executed # <<>>
                              THEN [lastEmitAt EXCEPT
                                       ![r.executed[1].name] = now + d]
                              ELSE lastEmitAt
           /\ prevEmitAt' = lastEmitAt
           /\ sessionEmits' = (sessionEmits \/ r.executed # <<>>)
           /\ runEmits' = (IF sameRun(hist, r.raw) THEN runEmits ELSE 0)
                              + Len(r.executed)
           /\ dropped' = IF r.confirmedNow # <<>> /\ r.executed = <<>>
                           THEN r.raw
                           ELSE IF r.raw = dropped THEN dropped ELSE null
           /\ interrupted' = IF r.confirmedGesture # confirmedGesture
                               THEN FALSE
                               ELSE interrupted \/ r.raw # confirmedGesture
    /\ UNCHANGED <<gestureCamera, otherVars>>

Results == {<<>>} \cup {<<h>> : h \in SampleHands}

Next ==
    \/ StartGestureRecognition
    \/ StopGestureRecognition
    \/ \E d \in Deltas, results \in Results : OnResults(d, results)

Spec == Init /\ [][Next]_vars

(* ------------------------- claim vocabulary --------------------------- *)
GapEvents == {"Unknown", "NoHand"}

\* the last GESTURE_CONFIRM_FRAMES events are all frames named n
HistAll(n) ==
    /\ Len(hist) = GESTURE_CONFIRM_FRAMES
    /\ \A i \in 1..Len(hist) : hist[i] = n

\* the raw names of the frames logged so far are the first frames of scen
LogFollows(scen) ==
    /\ logging
    /\ Len(log) <= Len(scen)
    /\ \A i \in 1..Len(log) : log[i][1] = scen[i]

\* how many of the last entries of h are known names
TrailingKnown(h) ==
    LET ok == {j \in 0..Len(h) :
                  \A i \in (Len(h) - j + 1)..Len(h) : h[i] \in KnownNames}
    IN  CHOOSE j \in ok : \A k \in ok : k <= j

Min(a, b) == IF a < b THEN a ELSE b

LastOf(h, n) == SubSeq(h, Len(h) - n + 1, Len(h))

RawsOf(l) == [i \in 1..Len(l) |-> l[i][1]]

\* C1: a name is executed on a frame only if that frame and the two frames
\* before it all carried that name, with no Unknown frame, no-hand frame or
\* stop among them; and for the frames A, A, B, B, B from the start nothing
\* is executed on frames 1 to 4 and B is executed on frame 5.
C1_EmitOnlyAfterThreeEqualFrames ==
    /\ emitted # <<>> => HistAll(nameOf(emitted))
    /\ \A a, b \in KnownNames :
          a # b /\ LogFollows(<<a, a, b, b, b>>) =>
             \A i \in 1..Len(log) : log[i][3] = (IF i = 5 THEN b ELSE "")

C1_Witness ==
    \E a, b \in KnownNames :
        /\ a # b
        /\ logging
        /\ RawsOf(log) = <<a, a, b, b, b>>
        /\ emitted # <<>>
        /\ nameOf(emitted) = b

\* C2: on the frame that completes three equal known frames since the last
\* reset, with a name other than confirmedGesture, and either another name
\* than the one executed last or at least 800 ms after that execution, the
\* gesture is executed on that very frame and confirmedGesture becomes it.
C2_ConfirmationIsImmediate ==
    [][\A n \in KnownNames :
          (/\ now' > now
           /\ Len(hist') = GESTURE_CONFIRM_FRAMES
           /\ \A i \in 1..Len(hist') : hist'[i] = n
           /\ confirmedGesture # n
           /\ \/ n # LastEmitted(lastEmitAt)
              \/ now' - lastEmitAt[n] >= GESTURE_DEBOUNCE_MS)
          => /\ nameOf(emitted') = n
             /\ confirmedGesture' = n]_vars

C2_Witness ==
    /\ emitted # <<>>
    /\ confirmedGesture = nameOf(emitted)
    /\ LastEmitted(prevEmitAt) = nameOf(emitted)
    /\ now - prevEmitAt[nameOf(emitted)] = GESTURE_DEBOUNCE_MS

\* C3: after an Unknown frame or a no-hand frame the window is empty and
\* confirmedGesture is null; a confirmation needs three equal frames after
\* the gap; for A, A, gap, A, A, A the only confirmation is on frame 6.
C3_GapResetsStreak ==
    /\ (Len(hist) > 0 /\ hist[Len(hist)] \in GapEvents)
          => (gestureBuffer = <<>> /\ confirmedGesture = null)
    /\ confirmedNow # <<>> => HistAll(nameOf(confirmedNow))
    /\ \A a \in KnownNames, gap \in GapEvents :
          LogFollows(<<a, a, gap, a, a, a>>) =>
             \A i \in 1..Len(log) : log[i][2] = (IF i = 6 THEN a ELSE "")

C3_Witness ==
    \E a \in KnownNames, gap \in GapEvents :
        /\ logging
        /\ RawsOf(log) = <<a, a, gap, a, a, a>>
        /\ nameOf(confirmedNow) = a

\* C4: in an uninterrupted run of frames with one known name the gesture is
\* executed at most once, however long the run lasts.
C4_HeldGestureFiresOnce == runEmits <= 1

C4_Witness ==
    /\ runEmits = 1
    /\ emitted = <<>>
    /\ HistAll(lastGesture)
    /\ now - gestureDebounce >= GESTURE_DEBOUNCE_MS

\* C5: a confirmed gesture with the name executed last is dropped, leaving
\* lastGesture and gestureDebounce as they were, when fewer than 800 ms have
\* passed since that execution, and is executed when 800 ms or more have.
C5_DebounceGate ==
    (confirmedNow # <<>> /\ nameOf(confirmedNow) = LastEmitted(prevEmitAt))
    => IF now - prevEmitAt[nameOf(confirmedNow)] < GESTURE_DEBOUNCE_MS
         THEN /\ emitted = <<>>
              /\ lastEmitAt = prevEmitAt
              /\ lastGesture = nameOf(confirmedNow)
              /\ gestureDebounce = prevEmitAt[nameOf(confirmedNow)]
         ELSE /\ emitted = confirmedNow
              /\ lastGesture = nameOf(confirmedNow)
              /\ gestureDebounce = now

C5_Witness ==
    /\ confirmedNow # <<>>
    /\ emitted = <<>>
    /\ nameOf(confirmedNow) = LastEmitted(prevEmitAt)
    /\ now - gestureDebounce = GESTURE_DEBOUNCE_MS - 100

\* C6, as stated: any two executions of one name are at least 800 ms apart,
\* whatever was executed between them.
C6_AnyTwoEmissionsApart ==
    (emitted # <<>> /\ prevEmitAt[nameOf(emitted)] >= 0)
    => now - prevEmitAt[nameOf(emitted)] >= GESTURE_DEBOUNCE_MS

\* C6, amended: two executions of one name with no other execution between
\* them are at least 800 ms apart.
C6_ConsecutiveEmissionsApart ==
    (emitted # <<>> /\ nameOf(emitted) = LastEmitted(prevEmitAt))
    => now - prevEmitAt[nameOf(emitted)] >= GESTURE_DEBOUNCE_MS

C6_Witness ==
    /\ emitted # <<>>
    /\ nameOf(emitted) = LastEmitted(prevEmitAt)
    /\ now - prevEmitAt[nameOf(emitted)] > GESTURE_DEBOUNCE_MS

\* C7: a confirmed gesture with another name than the one executed last is
\* executed at once, however recent that execution, and lastGesture and
\* gestureDebounce become its name and the current time.
C7_DifferentLabelOverride ==
    (confirmedNow # <<>> /\ nameOf(confirmedNow) # LastEmitted(prevEmitAt))
    => /\ emitted = confirmedNow
       /\ lastGesture = nameOf(confirmedNow)
       /\ gestureDebounce = now
       /\ lastEmitAt[nameOf(confirmedNow)] = now

C7_Witness ==
    /\ emitted # <<>>
    /\ LastEmitted(prevEmitAt) \notin {"", nameOf(emitted)}
    /\ now - prevEmitAt[LastEmitted(prevEmitAt)] < GESTURE_DEBOUNCE_MS
    /\ lastGesture = nameOf(emitted)

\* C8: a frame without a hand and a frame classified Unknown lead from any
\* state to the same state: window empty, confirmedGesture null, lastGesture
\* and gestureDebounce unchanged, and nothing executed.
C8_NoHandLikeUnknown ==
    [][(now' > now /\ hist'[Len(hist')] \in GapEvents)
          => /\ gestureBuffer' = <<>>
             /\ confirmedGesture' = null
             /\ lastGesture' = lastGesture
             /\ gestureDebounce' = gestureDebounce
             /\ lastEmitAt' = lastEmitAt
             /\ emitted' = <<>>
             /\ gestureCamera' = gestureCamera]_vars

C8_Witness ==
    /\ Len(hist) = GESTURE_CONFIRM_FRAMES
    /\ hist[2] = "Unknown"
    /\ hist[3] = "NoHand"
    /\ hist[1] = lastGesture
    /\ gestureBuffer = <<>>

\* C9: stopping resets every field of the confirmation state, lastGesture
\* and gestureDebounce included, so that a confirmation is dropped by the
\* debounce check only because of an execution of the same session.
C9_StopResetsEverything ==
    /\ (Len(hist) > 0 /\ hist[Len(hist)] = "Stop")
          => /\ gestureBuffer = <<>>
             /\ confirmedGesture = null
             /\ lastGesture = ""
             /\ gestureDebounce = 0
    /\ (confirmedNow # <<>> /\ emitted = <<>>) => sessionEmits

\* C10: the window holds at most three names, and they are, in order, the
\* last min(k, 3) known names since the last reset.
C10_WindowIsFifo ==
    /\ Len(gestureBuffer) <= GESTURE_CONFIRM_FRAMES
    /\ gestureBuffer = LastOf(hist, TrailingKnown(hist))
    /\ logging =>
          gestureBuffer =
              LastOf(RawsOf(log),
                     Min(TrailingKnown(RawsOf(log)), GESTURE_CONFIRM_FRAMES))

C10_Witness ==
    /\ logging
    /\ TrailingKnown(RawsOf(log)) > GESTURE_CONFIRM_FRAMES
    /\ Len(gestureBuffer) = GESTURE_CONFIRM_FRAMES
    /\ gestureBuffer[1] # gestureBuffer[3]
    /\ gestureBuffer[2] # gestureBuffer[3]


(* ----------------------- the classifier on its own --------------------- *)
\* the values of the parameters of HandOf: every combination of the
\* comparisons classifyGesture makes occurs, with the thumb spread and the
\* thumb-index gap on both sides of their thresholds and on them
Spreads == {3, 5, 12}
WristDys == {-10, 10}
McpDys == {-5, 5}
IpDys == {-3, 3}
Gaps == {5, 6, 7, 20}

FlatHands ==
    {HandOf(ext, spread, wristDy, mcpDy, ipDy, gap, TRUE) :
        ext \in Fingers, spread \in Spreads, wristDy \in WristDys,
        mcpDy \in McpDys, ipDy \in IpDys, gap \in Gaps}

\* the same hands with thumb and index tip close, without z coordinates
NoZHands ==
    {HandOf(ext, spread, wristDy, mcpDy, ipDy, 5, FALSE) :
        ext \in Fingers, spread \in Spreads, wristDy \in WristDys,
        mcpDy \in McpDys, ipDy \in IpDys}

\* the index tip lies 4 nearer to the camera than the thumb tip
DeepIndex(h) == [h EXCEPT ![8] = [x |-> h[8].x, y |-> h[8].y, z |-> 4]]

\* the detector left out the z coordinate of the thumb tip only
NoThumbZ(h) == [h EXCEPT ![4] = [x |-> h[4].x, y |-> h[4].y]]

CloseHands == {h \in FlatHands : h[8].x - h[4].x = 5}

ClassifierHands ==
    FlatHands \cup NoZHands
        \cup {DeepIndex(h) : h \in CloseHands}
        \cup {NoThumbZ(DeepIndex(h)) : h \in CloseHands}

InitClassify ==
    /\ gestureCamera = null
    /\ gestureBuffer = <<>>
    /\ confirmedGesture = null
    /\ lastGesture = ""
    /\ gestureDebounce = 0
    /\ now = 0
    /\ confirmedNow = <<>>
    /\ emitted = <<>>
    /\ hist = <<>>
    /\ log = <<>>
    /\ logging = TRUE
    /\ lastEmitAt = [n \in KnownNames |-> -1]
    /\ prevEmitAt = [n \in KnownNames |-> -1]
    /\ sessionEmits = FALSE
    /\ runEmits = 0
    /\ dropped = null
    /\ interrupted = FALSE
    /\ hand \in ClassifierHands
    /\ classified = <<>>
    /\ classifiedAgain = <<>>
    /\ classifiedAt = -1
    /\ gestureStream = null
    /\ eyeTrackingActive = FALSE
    /\ gestureStartShown = TRUE
    /\ startPc = [i \in 1..MaxStarts |-> "idle"]
    /\ cameras = [i \in 1..MaxStarts |-> "none"]
    /\ liveStreams = {}
    /\ gestureFrameCount = [i \in 1..MaxStarts |-> 0]
    /\ framesSeen = [i \in 1..MaxStarts |-> 0]
    /\ emitFrame = 0
    /\ inFlight = {}
    /\ stopped = FALSE
    /\ sttListening = FALSE
    /\ voiceNavActive = FALSE
    /\ captionActive = FALSE
    /\ recognition = [f \in {"stt", "voiceNav", "caption"} |-> "idle"]
    /\ restartTimers = {}
    /\ dictationTimer = FALSE
    /\ isDetecting = FALSE
    /\ camera = null
    /\ moduleLastGesture = null
    /\ lastGestureTime = 0
    /\ sending = FALSE
    /\ handled = <<>>
    /\ called = <<>>
    /\ calledSame = FALSE
    /\ calledAt = [g \in ModuleGestures |-> -1]
    /\ prevCalledAt = [g \in ModuleGestures |-> -1]

\* classifyGesture(hand) is called and returns
Classify ==
    /\ classified = <<>>
    /\ classified' = <<classifyGesture(hand)>>
    /\ classifiedAt' = now
    /\ UNCHANGED <<pipeVars, hand, classifiedAgain, sessionVars, audioVars,
                   moduleVars>>

\* classifyGesture is called with the same hand once more, after the fist
\* was executed
ClassifyAgain ==
    /\ classified # <<>>
    /\ lastGesture # ""
    /\ classifiedAgain = <<>>
    /\ classifiedAgain' = <<classifyGesture(hand)>>
    /\ UNCHANGED <<pipeVars, hand, classified, classifiedAt, sessionVars,
                   audioVars, moduleVars>>

\* the shortest time between two deliveries
ShortDelta == CHOOSE d \in Deltas : \A e \in Deltas : d <= e

\* a frame showing a fist passes through hands.onResults, until the fist
\* has been executed
FistFrame ==
    /\ lastGesture = ""
    /\ OnResults(ShortDelta, <<FistHand>>)

NextClassify ==
    \/ StartGestureRecognition
    \/ FistFrame
    \/ Classify
    \/ ClassifyAgain

SpecClassify == InitClassify /\ [][NextClassify]_vars


(* ------------------- claims about the classifier ---------------------- *)
\* the GestureResults classifyGesture can return, in the order of its rules
GestureRows ==
    << Gesture("Open Palm", "stop"), Gesture("Thumbs Up", "confirm"),
       Gesture("Thumbs Down", "reject"), Gesture("Fist", "start"),
       Gesture("Pinch", "zoom"), Gesture("OK Sign", "toggle-theme"),
       Gesture("Peace Sign", "scroll"), Gesture("Pointing", "point"),
       Gesture("Three Fingers", "scroll-up"),
       Gesture("L-Shape", "prev-section"),
       Gesture("Four Fingers", "next-section"), Gesture("Rock On", "top"),
       Gesture("Hang Loose", "bottom"), Gesture("Unknown", null) >>

\* the hand h with z = 0 written out wherever the detector left z out
WithZ(h) ==
    [k \in DOMAIN h |->
        IF "z" \in DOMAIN h[k] THEN h[k]
        ELSE [x |-> h[k].x, y |-> h[k].y, z |-> 0]]

C11_ResultWellFormed ==
    classified # <<>> =>
        /\ \E i \in DOMAIN GestureRows : classified[1] = GestureRows[i]
        /\ classified[1] = classifyGesture(WithZ(hand))

C11_ClassifyStep ==
    classified' # classified \/ classifiedAgain' # classifiedAgain

FingersUp ==
    {i \in 0..3 : hand[8 + 4 * i].y < hand[6 + 4 * i].y}

\* the thumb tip lies farther from landmark 2 in x than landmark 3 does
ThumbOut ==
    (hand[4].x - hand[2].x) * (hand[4].x - hand[2].x)
        > (hand[3].x - hand[2].x) * (hand[3].x - hand[2].x)

ThumbAboveWrist == hand[4].y < hand[0].y
ThumbAboveIndexMcp == hand[4].y < hand[5].y
ThumbBelowIp == hand[4].y > hand[3].y

\* z of a landmark, 0 if the detector supplied none
ZCoord(k) == IF "z" \in DOMAIN hand[k] THEN hand[k].z ELSE 0

\* squared distance between thumb tip and index tip
TipDistSq ==
    (hand[4].x - hand[8].x) * (hand[4].x - hand[8].x)
        + (hand[4].y - hand[8].y) * (hand[4].y - hand[8].y)
        + (ZCoord(4) - ZCoord(8)) * (ZCoord(4) - ZCoord(8))

\* C12: a hand with all four fingers extended and the thumb extended is
\* classified Open Palm with action stop, whatever its other features are.
C12_OpenPalmFirst ==
    classified # <<>> /\ FingersUp = 0..3 /\ ThumbOut
        => classified[1] = Gesture("Open Palm", "stop")

\* an open palm whose thumb points down and whose thumb and index tips are
\* within OK Sign distance
C12_Witness ==
    /\ classified # <<>>
    /\ FingersUp = 0..3
    /\ ThumbOut
    /\ ~ThumbAboveWrist
    /\ TipDistSq < PINCH_DIST_SQ
    /\ classified[1].name = "Open Palm"

\* C13: a hand with no finger extended and the thumb not extended is
\* classified Fist with action start, whatever the thumb's direction, its
\* height and the thumb-index distance are.
C13_FistWhenThumbTucked ==
    classified # <<>> /\ FingersUp = {} /\ ~ThumbOut
        => classified[1] = Gesture("Fist", "start")

\* a fist whose thumb is as far out as landmark 3, above wrist and index
\* MCP, with the tips of thumb and index within Pinch distance
C13_Witness ==
    /\ classified # <<>>
    /\ FingersUp = {}
    /\ ~ThumbOut
    /\ Abs(hand[4].x - hand[2].x) = Abs(hand[3].x - hand[2].x)
    /\ ThumbAboveWrist
    /\ ThumbAboveIndexMcp
    /\ TipDistSq < PINCH_DIST_SQ
    /\ classified[1].name = "Fist"

\* the Pointing and the L-Shape predicate both hold of the hand
PointingAndLShape == FingersUp = {0} /\ ThumbOut

\* C14 as stated: every hand satisfying both the Pointing and the L-Shape
\* predicate is classified Pointing.
C14_BothPredicatesGivePointing ==
    classified # <<>> /\ PointingAndLShape
        => classified[1] = Gesture("Pointing", "point")

\* C14: a hand satisfying both the Pointing and the L-Shape predicate is
\* classified Pointing, never L-Shape, unless its thumb and index tips are
\* less than 0.06 apart; then the Pinch rule, which comes earlier, fires.
C14_PointingBeforeLShape ==
    classified # <<>> /\ PointingAndLShape
        => classified[1] = IF TipDistSq < PINCH_DIST_SQ
                             THEN Gesture("Pinch", "zoom")
                             ELSE Gesture("Pointing", "point")

\* both predicates hold, the tips are apart, and the result is Pointing
C14_Witness ==
    /\ classified # <<>>
    /\ PointingAndLShape
    /\ TipDistSq >= PINCH_DIST_SQ
    /\ classified[1].name = "Pointing"


\* the ordered rule list: predicate of rule i over the features of the hand
RuleHolds(i) ==
    LET ext(k) == k \in FingersUp
        extendedCount == Cardinality(FingersUp)
    IN  CASE i = 1 -> extendedCount >= 4 /\ ThumbOut
          [] i = 2 -> ThumbOut /\ ThumbAboveWrist /\ extendedCount = 0
                        /\ ThumbAboveIndexMcp
          [] i = 3 -> ThumbOut /\ ~ThumbAboveWrist /\ extendedCount = 0
                        /\ ThumbBelowIp
          [] i = 4 -> extendedCount = 0 /\ ~ThumbOut
          [] i = 5 -> TipDistSq < PINCH_DIST_SQ
                        /\ ~ext(1) /\ ~ext(2) /\ ~ext(3)
          [] i = 6 -> TipDistSq < OK_DIST_SQ /\ ext(1) /\ ext(2) /\ ext(3)
          [] i = 7 -> ext(0) /\ ext(1) /\ ~ext(2) /\ ~ext(3)
          [] i = 8 -> ext(0) /\ ~ext(1) /\ ~ext(2) /\ ~ext(3)
          [] i = 9 -> ext(0) /\ ext(1) /\ ext(2) /\ ~ext(3)
          [] i = 10 -> ThumbOut /\ ext(0) /\ ~ext(1) /\ ~ext(2) /\ ~ext(3)
          [] i = 11 -> extendedCount >= 4 /\ ~ThumbOut
          [] i = 12 -> ext(0) /\ ~ext(1) /\ ~ext(2) /\ ext(3)
          [] i = 13 -> ThumbOut /\ ~ext(0) /\ ~ext(1) /\ ~ext(2) /\ ext(3)
          [] OTHER -> TRUE

RuleLabels ==
    << "Open Palm", "Thumbs Up", "Thumbs Down", "Fist", "Pinch", "OK Sign",
       "Peace Sign", "Pointing", "Three Fingers", "L-Shape", "Four Fingers",
       "Rock On", "Hang Loose", "Unknown" >>

RuleActions ==
    << "stop", "confirm", "reject", "start", "zoom", "toggle-theme",
       "scroll", "point", "scroll-up", "prev-section", "next-section",
       "top", "bottom", "none" >>

\* the first rule of the list whose predicate holds
FirstRule ==
    CHOOSE i \in DOMAIN RuleLabels :
        RuleHolds(i) /\ \A j \in 1..(i - 1) : ~RuleHolds(j)

\* the action tag of a GestureResult: no action is the tag none
ActionTagOf(g) == IF g.action = null THEN "none" ELSE g.action

\* C15: for every combination of the features, classifyGesture returns the
\* label and the action of the first rule of the ordered 14-rule list whose
\* predicate holds.
C15_AgreesWithRuleList ==
    classified # <<>> =>
        /\ classified[1].name = RuleLabels[FirstRule]
        /\ ActionTagOf(classified[1]) = RuleActions[FirstRule]

\* a hand of which the Pinch, Pointing and L-Shape predicates all hold
C15_Witness ==
    /\ classified # <<>>
    /\ {i \in 1..13 : RuleHolds(i)} = {5, 8, 10}
    /\ classified[1].name = "Pinch"


\* the rule list with the Fist rule where the Thumbs Up rule stands and the
\* Thumbs Up rule where the Fist rule stands
SwappedOrder == <<1, 4, 3, 2, 5, 6, 7, 8, 9, 10, 11, 12, 13, 14>>

FirstRuleSwapped ==
    LET k == CHOOSE k \in DOMAIN SwappedOrder :
                 /\ RuleHolds(SwappedOrder[k])
                 /\ \A j \in 1..(k - 1) : ~RuleHolds(SwappedOrder[j])
    IN  SwappedOrder[k]

\* C22 as stated: some hand with no finger extended, the classified one or
\* another, satisfies the Thumbs Up predicate and the Fist predicate.
C22_RulesOverlap ==
    \E h \in {hand} \cup ClassifierHands :
        /\ extendedCountOf(h) = 0
        /\ thumbExtendedOf(h) /\ thumbPointingUpOf(h) /\ h[4].y < h[5].y
        /\ ~thumbExtendedOf(h)

\* C22: the Thumbs Up and the Fist predicate both need extendedCount = 0 and
\* exclude each other through thumbExtended, so no hand satisfies both and
\* every hand is classified as it would be with the two rules swapped.
C22_ThumbsUpFistDisjoint ==
    classified # <<>> =>
        /\ ~(RuleHolds(2) /\ RuleHolds(4))
        /\ RuleHolds(2) => classified[1] = Gesture("Thumbs Up", "confirm")
        /\ classified[1].name = RuleLabels[FirstRuleSwapped]

\* a thumbs-up hand: no finger extended, the Fist predicate fails on the thumb
C22_Witness ==
    /\ classified = <<Gesture("Thumbs Up", "confirm")>>
    /\ FingersUp = {}
    /\ ThumbOut
    /\ ~RuleHolds(4)

(* --------------------- one hand held before the camera ----------------- *)
\* the names of the gestures of EventHands that have an action
EventNames ==
    {rawGestureOf[h].name :
        h \in {g \in EventHands : Truthy(rawGestureOf[g].action)}}

InitEvents ==
    /\ gestureCamera = null
    /\ gestureBuffer = <<>>
    /\ confirmedGesture = null
    /\ lastGesture = ""
    /\ gestureDebounce = 0
    /\ now = 0
    /\ confirmedNow = <<>>
    /\ emitted = <<>>
    /\ hist = <<>>
    /\ log = <<>>
    /\ logging = TRUE
    /\ lastEmitAt = [n \in EventNames |-> -1]
    /\ prevEmitAt = [n \in EventNames |-> -1]
    /\ sessionEmits = FALSE
    /\ runEmits = 0
    /\ dropped = null
    /\ interrupted = FALSE
    /\ hand \in EventHands
    /\ classified = <<>>
    /\ classifiedAgain = <<>>
    /\ classifiedAt = -1
    /\ gestureStream = null
    /\ eyeTrackingActive = FALSE
    /\ gestureStartShown = TRUE
    /\ startPc = [i \in 1..MaxStarts |-> "idle"]
    /\ cameras = [i \in 1..MaxStarts |-> "none"]
    /\ liveStreams = {}
    /\ gestureFrameCount = [i \in 1..MaxStarts |-> 0]
    /\ framesSeen = [i \in 1..MaxStarts |-> 0]
    /\ emitFrame = 0
    /\ inFlight = {}
    /\ stopped = FALSE
    /\ sttListening = FALSE
    /\ voiceNavActive = FALSE
    /\ captionActive = FALSE
    /\ recognition = [f \in {"stt", "voiceNav", "caption"} |-> "idle"]
    /\ restartTimers = {}
    /\ dictationTimer = FALSE
    /\ isDetecting = FALSE
    /\ camera = null
    /\ moduleLastGesture = null
    /\ lastGestureTime = 0
    /\ sending = FALSE
    /\ handled = <<>>
    /\ called = <<>>
    /\ calledSame = FALSE
    /\ calledAt = [g \in ModuleGestures |-> -1]
    /\ prevCalledAt = [g \in ModuleGestures |-> -1]

\* the detector delivers the hand held before the camera
HandFrame == OnResults(ShortDelta, <<hand>>)

\* the detector delivers a frame without a hand
NoHandFrame == OnResults(ShortDelta, <<>>)

NextEvents ==
    \/ StartGestureRecognition
    \/ HandFrame
    \/ NoHandFrame

SpecEvents == InitEvents /\ [][NextEvents]_vars

\* the closed enumeration of action tags
ActionTags ==
    {"stop", "confirm", "reject", "start", "zoom", "toggle-theme", "scroll",
     "point", "scroll-up", "prev-section", "next-section", "top", "bottom",
     "none"}

\* C16: every gesture handed to the consumer, that is every gesture that
\* executeGestureAction lets pass its debounce check, carries an action of
\* the closed enumeration, and it is the action of the rule with its label.
C16_EventActionFromTable ==
    emitted # <<>> =>
        /\ emitted[1].action \in ActionTags
        /\ \E i \in DOMAIN RuleLabels :
              /\ RuleLabels[i] = emitted[1].name
              /\ RuleActions[i] = emitted[1].action

\* a Hang Loose hand is executed a second time, after the debounce interval
C16_Witness ==
    /\ emitted # <<>>
    /\ emitted[1] = Gesture("Hang Loose", "bottom")
    /\ prevEmitAt["Hang Loose"] >= 0
    /\ now - prevEmitAt["Hang Loose"] >= GESTURE_DEBOUNCE_MS


\* C23: classifyGesture returns L-Shape for no hand, since a hand that
\* satisfies the L-Shape predicate is returned as Pinch or as Pointing by an
\* earlier rule; so no frame carries L-Shape and no prev-section action is
\* ever executed.
C23_LShapeShadowed ==
    /\ \A i \in DOMAIN hist : hist[i] # "L-Shape"
    /\ hist # <<>> /\ hist[Len(hist)] # "NoHand" /\ RuleHolds(10)
          => hist[Len(hist)] \in {"Pinch", "Pointing"}
    /\ emitted # <<>> =>
          /\ emitted[1].name # "L-Shape"
          /\ emitted[1].action # "prev-section"

\* a hand with the thumb and the index extended, held for three frames, is
\* executed as Pointing
C23_Witness ==
    /\ RuleHolds(10)
    /\ HistAll("Pointing")
    /\ emitted = <<Gesture("Pointing", "point")>>

\* the same with the two tips close together: executed as Pinch
C23_PinchCase ==
    /\ RuleHolds(10)
    /\ HistAll("Pinch")
    /\ emitted = <<Gesture("Pinch", "zoom")>>

(* ------------- further claims about the confirmation engine ----------- *)
\* the labels of the 13 rules that carry an action
KnownLabels == {RuleLabels[i] : i \in 1..13}

\* C24: the Unknown result never reaches the confirmation engine: the window
\* holds names of the 13 known gestures only, and neither confirmedGesture
\* nor a confirmed or executed gesture is ever Unknown or without an action;
\* a frame classified Unknown leaves the window empty.
C24_UnknownNeverEntersEngine ==
    /\ \A i \in DOMAIN gestureBuffer : gestureBuffer[i] \in KnownLabels
    /\ confirmedGesture \in KnownLabels \cup {null}
    /\ \A ev \in {confirmedNow, emitted} :
          ev # <<>> => /\ ev[1].name \in KnownLabels
                       /\ ActionTagOf(ev[1]) # "none"
    /\ hist # <<>> /\ hist[Len(hist)] = "Unknown"
          => gestureBuffer = <<>> /\ confirmedGesture = null

\* an Unknown hand right after two Fist frames: the window is emptied
C24_Witness ==
    /\ hist = <<"Fist", "Fist", "Unknown">>
    /\ gestureBuffer = <<>>
    /\ gestureCamera # null

\* C25: a confirmation that the debounce check has dropped is not made up
\* for: while the same name is seen on every following frame nothing is
\* executed, however long ago the last execution was, and confirmedGesture
\* and lastGesture stay that name.
C25_SuppressedIsDropped ==
    dropped # null =>
        /\ emitted = <<>>
        /\ confirmedGesture = dropped
        /\ lastGesture = dropped

\* a fist is still held 800 ms after its last execution, its second
\* confirmation having been dropped: this frame executes nothing
C25_Witness ==
    /\ dropped = "Fist"
    /\ confirmedNow = <<>>
    /\ HistAll("Fist")
    /\ now - lastEmitAt["Fist"] >= GESTURE_DEBOUNCE_MS

\* C26: the debounce check drops a confirmation only after a reset: a frame
\* that confirms a name while confirmedGesture is not null, no Unknown frame,
\* no-hand frame or stop having come since the confirmation before, executes
\* the gesture, however short the time since the last execution.
C26_ConfirmedWithoutResetIsExecuted ==
    [][(now' > now /\ confirmedNow' # <<>> /\ confirmedGesture # null)
          => /\ emitted' = confirmedNow'
             /\ nameOf(confirmedNow') # confirmedGesture
             /\ lastGesture' = nameOf(confirmedNow')
             /\ gestureDebounce' = now']_vars

\* an open palm is executed 300 ms after the fist it follows
C26_Witness ==
    /\ logging
    /\ RawsOf(log) = <<"Fist", "Fist", "Fist",
                       "Open Palm", "Open Palm", "Open Palm">>
    /\ emitted = <<Gesture("Open Palm", "stop")>>
    /\ now - lastEmitAt["Fist"] = 300

\* C27: while a name is confirmed, a frame with a known name that does not
\* complete three equal frames of another name confirms and executes nothing
\* and leaves confirmedGesture as it is; so one or two frames of other known
\* names between frames of the confirmed name make neither of them run.
C27_FlickerDoesNotRefire ==
    [][LET raw == hist'[Len(hist')]
       IN  (/\ now' > now
            /\ confirmedGesture # null
            /\ raw \notin GapEvents
            /\ ~(/\ raw # confirmedGesture
                 /\ Len(hist') = GESTURE_CONFIRM_FRAMES
                 /\ \A i \in 1..Len(hist') : hist'[i] = raw))
           => /\ confirmedNow' = <<>>
              /\ emitted' = <<>>
              /\ confirmedGesture' = confirmedGesture]_vars

\* the fist is back for three frames after frames with an open palm, more
\* than 800 ms after it was executed, and is not executed again
C27_Witness ==
    /\ interrupted
    /\ confirmedGesture = "Fist"
    /\ HistAll("Fist")
    /\ emitted = <<>>
    /\ lastEmitAt["Open Palm"] < lastEmitAt["Fist"]
    /\ now - lastEmitAt["Fist"] >= GESTURE_DEBOUNCE_MS

\* C28: lastGesture and gestureDebounce change only on a frame that executes
\* a gesture, and become its name and the time of the frame; a frame with a
\* name not yet confirmed, a frame whose confirmation the debounce check
\* drops, an Unknown frame and a no-hand frame leave both as they are.
C28_DebounceFieldsChangeOnExecution ==
    [][/\ (lastGesture' # lastGesture \/ gestureDebounce' # gestureDebounce)
            => /\ now' > now
               /\ emitted' # <<>>
       /\ (now' > now /\ emitted' # <<>>)
            => /\ lastGesture' = nameOf(emitted')
               /\ gestureDebounce' = now'
       /\ (now' > now /\ emitted' = <<>>)
            => /\ lastGesture' = lastGesture
               /\ gestureDebounce' = gestureDebounce]_vars

\* a no-hand frame within 800 ms of the execution of a fist: the fist is
\* still the gesture executed last, at the time it was executed
C28_Witness ==
    /\ hist # <<>>
    /\ hist[Len(hist)] = "NoHand"
    /\ lastGesture = "Fist"
    /\ gestureDebounce = lastEmitAt["Fist"]
    /\ gestureDebounce > 0
    /\ now - gestureDebounce < GESTURE_DEBOUNCE_MS

\* C31: in every reachable state confirmedGesture is null or equal to
\* lastGesture, which is the name of the gesture executed last.
C31_ConfirmedIsLastExecuted ==
    /\ confirmedGesture # null => confirmedGesture = lastGesture
    /\ lastGesture = LastEmitted(lastEmitAt)

\* a fist is confirmed again after a gap and the debounce check drops it:
\* confirmedGesture becomes the name executed before the gap
C31_Witness ==
    /\ confirmedNow = <<Gesture("Fist", "start")>>
    /\ emitted = <<>>
    /\ confirmedGesture = "Fist"
    /\ lastGesture = "Fist"
    /\ lastEmitAt["Open Palm"] >= 0

\* a step that empties the window or makes confirmedGesture null
C32_ClearStep ==
    \/ gestureBuffer # <<>> /\ gestureBuffer' = <<>>
    \/ confirmedGesture # null /\ confirmedGesture' = null

\* C32: while confirmedGesture is a name the window holds exactly
\* GESTURE_CONFIRM_FRAMES names; right after a confirmation each of them is
\* confirmedGesture; and the window and confirmedGesture are cleared only
\* together, by an Unknown frame, a no-hand frame or a stop.
C32_WindowAndConfirmedTogether ==
    /\ [](confirmedGesture # null
            => Len(gestureBuffer) = GESTURE_CONFIRM_FRAMES)
    /\ [](confirmedNow # <<>>
            => /\ confirmedGesture = nameOf(confirmedNow)
               /\ \A i \in DOMAIN gestureBuffer :
                     gestureBuffer[i] = confirmedGesture)
    /\ [][C32_ClearStep
            => /\ gestureBuffer' = <<>>
               /\ confirmedGesture' = null
               /\ hist'[Len(hist')] \in GapEvents \cup {"Stop"}]_vars

\* a fist stays confirmed while the full window holds an open palm between
\* two fists
C32_Witness ==
    /\ confirmedGesture = "Fist"
    /\ gestureBuffer = <<"Fist", "Open Palm", "Fist">>
    /\ confirmedNow = <<>>

(* --------------------------- camera sessions --------------------------- *)
\* the Camera and the MediaStream created by call i of
\* startGestureRecognition
CameraId(i) == "camera" \o ToString(i)
StreamId(i) == "stream" \o ToString(i)

MaxSessionTime == MaxSessionTicks * ShortDelta

\* the detector delivers a fist or no hand
SessionResults == {<<>>, <<FistHand>>}

InitSession ==
    /\ gestureCamera = null
    /\ gestureBuffer = <<>>
    /\ confirmedGesture = null
    /\ lastGesture = ""
    /\ gestureDebounce = 0
    /\ now = 0
    /\ confirmedNow = <<>>
    /\ emitted = <<>>
    /\ hist = <<>>
    /\ log = <<>>
    /\ logging = FALSE
    /\ lastEmitAt = [n \in KnownNames |-> -1]
    /\ prevEmitAt = [n \in KnownNames |-> -1]
    /\ sessionEmits = FALSE
    /\ runEmits = 0
    /\ dropped = null
    /\ interrupted = FALSE
    /\ hand = <<>>
    /\ classified = <<>>
    /\ classifiedAgain = <<>>
    /\ classifiedAt = -1
    /\ gestureStream = null
    /\ eyeTrackingActive = FALSE
    /\ gestureStartShown = TRUE
    /\ startPc = [i \in 1..MaxStarts |-> "idle"]
    /\ cameras = [i \in 1..MaxStarts |-> "none"]
    /\ liveStreams = {}
    /\ gestureFrameCount = [i \in 1..MaxStarts |-> 0]
    /\ framesSeen = [i \in 1..MaxStarts |-> 0]
    /\ emitFrame = 0
    /\ inFlight = {}
    /\ stopped = FALSE
    /\ sttListening = FALSE
    /\ voiceNavActive = FALSE
    /\ captionActive = FALSE
    /\ recognition = [f \in {"stt", "voiceNav", "caption"} |-> "idle"]
    /\ restartTimers = {}
    /\ dictationTimer = FALSE
    /\ isDetecting = FALSE
    /\ camera = null
    /\ moduleLastGesture = null
    /\ lastGestureTime = 0
    /\ sending = FALSE
    /\ handled = <<>>
    /\ called = <<>>
    /\ calledSame = FALSE
    /\ calledAt = [g \in ModuleGestures |-> -1]
    /\ prevCalledAt = [g \in ModuleGestures |-> -1]

frameVars == <<gestureBuffer, confirmedGesture, lastGesture, gestureDebounce,
               now, confirmedNow, emitted, emitFrame>>
\* what a camera session neither reads nor writes
sessionRest == <<hist, log, logging, lastEmitAt, prevEmitAt, sessionEmits,
                 runEmits, dropped, interrupted, classVars, audioVars,
                 moduleVars>>

\* click on gestureStartBtn, call i of startGestureRecognition up to its
\* first await: stopCameraFeatures('gesture'), then getUserMedia is pending
ClickGestureStart(i) ==
    /\ gestureStartShown
    /\ startPc[i] = "idle"
    /\ \A j \in 1..(i - 1) : startPc[j] # "idle"
    /\ eyeTrackingActive' = FALSE
    /\ startPc' = [startPc EXCEPT ![i] = "media"]
    /\ stopped' = FALSE
    /\ confirmedNow' = <<>>
    /\ emitted' = <<>>
    /\ emitFrame' = 0
    /\ UNCHANGED <<gestureCamera, gestureBuffer, confirmedGesture, lastGesture,
                   gestureDebounce, now, gestureStream, gestureStartShown,
                   cameras, liveStreams, gestureFrameCount, framesSeen,
                   inFlight, sessionRest>>

\* getUserMedia resolves in call i: the stream is stored, Hands and Camera
\* are created, gestureCamera.start() is pending
MediaGranted(i) ==
    /\ startPc[i] = "media"
    /\ gestureStream' = StreamId(i)
    /\ liveStreams' = liveStreams \cup {i}
    /\ gestureFrameCount' = [gestureFrameCount EXCEPT ![i] = 0]
    /\ framesSeen' = [framesSeen EXCEPT ![i] = 0]
    /\ gestureCamera' = CameraId(i)
    /\ cameras' = [cameras EXCEPT ![i] = "on"]
    /\ startPc' = [startPc EXCEPT ![i] = "camera"]
    /\ UNCHANGED <<frameVars, eyeTrackingActive, gestureStartShown, inFlight,
                   stopped, sessionRest>>

\* getUserMedia rejects in call i: the catch block reports it
MediaDenied(i) ==
    /\ startPc[i] = "media"
    /\ startPc' = [startPc EXCEPT ![i] = "done"]
    /\ UNCHANGED <<gestureCamera, frameVars, gestureStream, eyeTrackingActive,
                   gestureStartShown, cameras, liveStreams, gestureFrameCount,
                   framesSeen, inFlight, stopped, sessionRest>>

\* gestureCamera.start() resolves in call i: the buttons are swapped
CameraStarted(i) ==
    /\ startPc[i] = "camera"
    /\ gestureStartShown' = FALSE
    /\ startPc' = [startPc EXCEPT ![i] = "done"]
    /\ UNCHANGED <<gestureCamera, frameVars, gestureStream, eyeTrackingActive,
                   cameras, liveStreams, gestureFrameCount, framesSeen,
                   inFlight, stopped, sessionRest>>

\* stopGestureRecognition on the session state: the Camera and the stream
\* that gestureCamera and gestureStream refer to are stopped
StopSession ==
    LET r == stopGestureRecognition(gestureBuffer, confirmedGesture,
                                    lastGesture, gestureDebounce)
    IN  /\ gestureCamera' = r.gestureCamera
        /\ gestureBuffer' = r.gestureBuffer
        /\ confirmedGesture' = r.confirmedGesture
        /\ lastGesture' = r.lastGesture
        /\ gestureDebounce' = r.gestureDebounce
        /\ cameras' = [i \in DOMAIN cameras |->
                          IF gestureCamera = CameraId(i) THEN "off"
                          ELSE cameras[i]]
        /\ liveStreams' = {i \in liveStreams : gestureStream # StreamId(i)}
        /\ gestureStream' = null
        /\ gestureStartShown' = TRUE
        /\ stopped' = TRUE
        /\ confirmedNow' = <<>>
        /\ emitted' = <<>>
        /\ emitFrame' = 0
        /\ UNCHANGED <<now, startPc, gestureFrameCount, framesSeen, inFlight,
                       sessionRest>>

\* click on gestureStopBtn
ClickGestureStop ==
    /\ ~gestureStartShown
    /\ StopSession
    /\ UNCHANGED eyeTrackingActive

\* click on eyeStartBtn: stopCameraFeatures('eye'), then eye tracking is on
ClickEyeStart ==
    /\ ~eyeTrackingActive
    /\ StopSession
    /\ eyeTrackingActive' = TRUE

\* click on eyeStopBtn
ClickEyeStop ==
    /\ eyeTrackingActive
    /\ eyeTrackingActive' = FALSE
    /\ UNCHANGED <<gestureCamera, frameVars, gestureStream, gestureStartShown,
                   startPc, cameras, liveStreams, gestureFrameCount,
                   framesSeen, inFlight, stopped, sessionRest>>

\* onFrame of the Camera of call i: every second frame is sent to Hands
OnFrame(i) ==
    /\ cameras[i] = "on"
    /\ i \notin inFlight
    /\ gestureFrameCount' =
          [gestureFrameCount EXCEPT ![i] = (gestureFrameCount[i] + 1) % 2]
    /\ inFlight' = IF gestureFrameCount'[i] = 0 THEN inFlight \cup {i}
                                                 ELSE inFlight
    /\ framesSeen' =
          [framesSeen EXCEPT ![i] = IF @ < 2 * GESTURE_CONFIRM_FRAMES
                                      THEN @ + 1 ELSE @ - 1]
    /\ UNCHANGED <<gestureCamera, frameVars, gestureStream, eyeTrackingActive,
                   gestureStartShown, startPc, cameras, liveStreams, stopped,
                   sessionRest>>

\* hands.onResults of call i for the frame it sent
Deliver(i, results) ==
    /\ i \in inFlight
    /\ now + ShortDelta <= MaxSessionTime
    /\ LET r == onResults(results, now + ShortDelta, gestureBuffer,
                          confirmedGesture, lastGesture, gestureDebounce)
       IN  /\ now' = now + ShortDelta
           /\ gestureBuffer' = r.gestureBuffer
           /\ confirmedGesture' = r.confirmedGesture
           /\ lastGesture' = r.lastGesture
           /\ gestureDebounce' = r.gestureDebounce
           /\ confirmedNow' = r.confirmedNow
           /\ emitted' = r.executed
           /\ emitFrame' = IF r.executed # <<>> THEN framesSeen[i] ELSE 0
    /\ inFlight' = inFlight \ {i}
    /\ UNCHANGED <<gestureCamera, gestureStream, eyeTrackingActive,
                   gestureStartShown, startPc, cameras, liveStreams,
                   gestureFrameCount, framesSeen, stopped, sessionRest>>

NextSession ==
    \/ \E i \in 1..MaxStarts : ClickGestureStart(i)
    \/ \E i \in 1..MaxStarts : MediaGranted(i)
    \/ \E i \in 1..MaxStarts : MediaDenied(i)
    \/ \E i \in 1..MaxStarts : CameraStarted(i)
    \/ ClickGestureStop
    \/ ClickEyeStart
    \/ ClickEyeStop
    \/ \E i \in 1..MaxStarts : OnFrame(i)
    \/ \E i \in 1..MaxStarts, results \in SessionResults : Deliver(i, results)

SpecSession == InitSession /\ [][NextSession]_vars


(* -------------------- claims about camera sessions --------------------- *)
\* the calls whose Camera is started and not stopped: the frame sources
FrameSources == {i \in 1..MaxStarts : cameras[i] = "on"}

\* C17: at most one Camera delivers frames to the detector at any time,
\* whatever the order of start and stop clicks, a second start while an
\* earlier one awaits getUserMedia or gestureCamera.start() included.
C17_SingleFrameSource == Cardinality(FrameSources) <= 1

\* C18: from stopGestureRecognition until the next start the window stays
\* empty, no name is confirmed and no gesture is executed, also when the
\* detector delivers the result of a frame sent before the stop.
C18_StopLeavesNoWork ==
    stopped =>
        /\ gestureBuffer = <<>>
        /\ confirmedGesture = null
        /\ emitted = <<>>

\* C19: eye tracking is never active while the gesture feature holds a
\* Camera or a MediaStream.
C19_CameraMutex ==
    ~(eyeTrackingActive /\ (gestureCamera # null \/ gestureStream # null))


\* C29: of the camera frames of a session, counted from its start, the
\* even ones are sent to the detector and the odd ones are dropped; and no
\* gesture is executed before the sixth camera frame of the session whose
\* result executes it.
C29_NoEmissionBeforeSixthFrame ==
    /\ \A i \in 1..MaxStarts : framesSeen[i] % 2 = gestureFrameCount[i]
    /\ emitted # <<>> => emitFrame >= 2 * GESTURE_CONFIRM_FRAMES

\* what holds of C29: a camera frame is sent to the detector exactly when
\* it is an even frame of its session, and the other frames change nothing
\* but the counter
C29_EvenFramesAreSent ==
    [][\A i \in 1..MaxStarts :
          framesSeen'[i] # framesSeen[i] /\ framesSeen'[i] # 0
             => /\ (i \in inFlight') = (framesSeen'[i] % 2 = 0)
                /\ UNCHANGED <<gestureBuffer, confirmedGesture, lastGesture,
                               gestureDebounce>>]_vars


(* --------------------------- audio features ---------------------------- *)
Features == {"stt", "voiceNav", "caption"}

\* the sections a 'start' gesture distinguishes (activeSectionId)
Sections == {"speech-to-text", "text-to-speech", "voice-nav", "auto-caption"}

\* the voice commands that touch an audio feature
Commands ==
    {"start dictation", "stop dictation", "start captions", "stop captions",
     "stop listening"}

\* SpeechRecognitionErrorEvent.error
Errors == {"not-allowed", "network", "audio-capture", "no-speech"}

\* recognition.stop(): a started recognition winds down; onend follows
recognitionStop(rec, f) ==
    IF rec[f] = "running" THEN [rec EXCEPT ![f] = "stopping"] ELSE rec

\* the handlers below take and return the audio state au, a record of
\* sttListening, voiceNavActive, captionActive and recognition
stopSTT(au) ==
    [au EXCEPT !.sttListening = FALSE,
               !.recognition = recognitionStop(au.recognition, "stt")]

\* voiceNavBtn click while voice navigation is active
voiceNavOff(au) ==
    [au EXCEPT !.voiceNavActive = FALSE,
               !.recognition = recognitionStop(au.recognition, "voiceNav")]

\* captionPlayBtn click while captions are active
captionOff(au) ==
    [au EXCEPT !.captionActive = FALSE,
               !.recognition = recognitionStop(au.recognition, "caption")]

\* the caption feature is not asked to stop
stopAudioFeatures_KeepsCaption(except, au) ==
    LET a1 == IF except # "stt" THEN stopSTT(au) ELSE au
    IN  IF except # "voiceNav" /\ a1.voiceNavActive THEN voiceNavOff(a1) ELSE a1
stopAudioFeatures(except, au) ==
    LET a1 == IF except # "stt" THEN stopSTT(au) ELSE au
        a2 == IF except # "voiceNav" /\ a1.voiceNavActive
                THEN voiceNavOff(a1) ELSE a1
    IN  IF except # "caption" /\ a2.captionActive THEN captionOff(a2) ELSE a2

\* safeStartRecognition: start() throws if the recognition is started
startSTT(au) ==
    LET a1 == stopAudioFeatures("stt", au)
        a2 == [a1 EXCEPT !.sttListening = TRUE]
    IN  IF a2.recognition["stt"] = "idle"
          THEN [a2 EXCEPT !.recognition["stt"] = "running"]
          ELSE stopSTT(a2)

voiceNavBtnClick(au) ==
    IF au.voiceNavActive
      THEN voiceNavOff(au)
      ELSE LET a1 == stopAudioFeatures("voiceNav", au)
           IN  IF a1.recognition["voiceNav"] = "idle"
                 THEN [a1 EXCEPT !.voiceNavActive = TRUE,
                                 !.recognition["voiceNav"] = "running"]
                 ELSE [a1 EXCEPT !.voiceNavActive = FALSE]

captionPlayBtnClick(au) ==
    IF au.captionActive
      THEN captionOff(au)
      ELSE LET a1 == stopAudioFeatures("caption", au)
           IN  IF a1.recognition["caption"] = "idle"
                 THEN [a1 EXCEPT !.captionActive = TRUE,
                                 !.recognition["caption"] = "running"]
                 ELSE [a1 EXCEPT !.captionActive = FALSE]

\* the feature's flag is set
activeIn(au, f) ==
    CASE f = "stt" -> au.sttListening
      [] f = "voiceNav" -> au.voiceNavActive
      [] f = "caption" -> au.captionActive

\* the feature gives up after an error or a failed restart
giveUp(au, f) ==
    CASE f = "stt" -> stopSTT(au)
      [] f = "voiceNav" -> [au EXCEPT !.voiceNavActive = FALSE]
      [] f = "caption" -> [au EXCEPT !.captionActive = FALSE]

\* recognition.onerror of feature f
onRecognitionError(au, f, err) ==
    IF err \in {"not-allowed", "network"} THEN giveUp(au, f)
    ELSE IF err # "no-speech" /\ f = "stt" THEN stopSTT(au)
    ELSE au

\* the handler of a voice command
onVoiceCommand(au, cmd) ==
    CASE cmd = "start dictation" -> voiceNavOff(au)
      [] cmd = "stop dictation" -> stopSTT(au)
      [] cmd = "start captions" ->
            IF ~au.captionActive THEN captionPlayBtnClick(au) ELSE au
      [] cmd = "stop captions" ->
            IF au.captionActive THEN captionPlayBtnClick(au) ELSE au
      [] cmd = "stop listening" -> voiceNavBtnClick(au)

\* executeGestureAction, case 'start', by activeSectionId
onGestureStart(au, section) ==
    CASE section = "speech-to-text" ->
            IF ~au.sttListening THEN startSTT(au) ELSE au
      [] section = "voice-nav" ->
            IF ~au.voiceNavActive THEN voiceNavBtnClick(au) ELSE au
      [] section = "auto-caption" ->
            IF ~au.captionActive THEN captionPlayBtnClick(au) ELSE au
      [] OTHER -> au


\* the audio state of the page
Audio ==
    [sttListening |-> sttListening, voiceNavActive |-> voiceNavActive,
     captionActive |-> captionActive, recognition |-> recognition]

SetAudio(au) ==
    /\ sttListening' = au.sttListening
    /\ voiceNavActive' = au.voiceNavActive
    /\ captionActive' = au.captionActive
    /\ recognition' = au.recognition

\* what the audio handlers neither read nor write
audioRest == <<pipeVars, classVars, sessionVars, moduleVars>>

InitAudio ==
    /\ gestureCamera = null
    /\ gestureBuffer = <<>>
    /\ confirmedGesture = null
    /\ lastGesture = ""
    /\ gestureDebounce = 0
    /\ now = 0
    /\ confirmedNow = <<>>
    /\ emitted = <<>>
    /\ hist = <<>>
    /\ log = <<>>
    /\ logging = FALSE
    /\ lastEmitAt = [n \in KnownNames |-> -1]
    /\ prevEmitAt = [n \in KnownNames |-> -1]
    /\ sessionEmits = FALSE
    /\ runEmits = 0
    /\ dropped = null
    /\ interrupted = FALSE
    /\ hand = <<>>
    /\ classified = <<>>
    /\ classifiedAgain = <<>>
    /\ classifiedAt = -1
    /\ gestureStream = null
    /\ eyeTrackingActive = FALSE
    /\ gestureStartShown = TRUE
    /\ startPc = [i \in 1..MaxStarts |-> "idle"]
    /\ cameras = [i \in 1..MaxStarts |-> "none"]
    /\ liveStreams = {}
    /\ gestureFrameCount = [i \in 1..MaxStarts |-> 0]
    /\ framesSeen = [i \in 1..MaxStarts |-> 0]
    /\ emitFrame = 0
    /\ inFlight = {}
    /\ stopped = FALSE
    /\ sttListening = FALSE
    /\ voiceNavActive = FALSE
    /\ captionActive = FALSE
    /\ recognition = [f \in Features |-> "idle"]
    /\ restartTimers = {}
    /\ dictationTimer = FALSE
    /\ isDetecting = FALSE
    /\ camera = null
    /\ moduleLastGesture = null
    /\ lastGestureTime = 0
    /\ sending = FALSE
    /\ handled = <<>>
    /\ called = <<>>
    /\ calledSame = FALSE
    /\ calledAt = [g \in ModuleGestures |-> -1]
    /\ prevCalledAt = [g \in ModuleGestures |-> -1]

\* click on sttMicBtn
ClickSttMic ==
    /\ SetAudio(IF sttListening THEN stopSTT(Audio) ELSE startSTT(Audio))
    /\ UNCHANGED <<restartTimers, dictationTimer, audioRest>>

\* click on voiceNavBtn, or Alt+V
ClickVoiceNav ==
    /\ SetAudio(voiceNavBtnClick(Audio))
    /\ UNCHANGED <<restartTimers, dictationTimer, audioRest>>

\* click on captionPlayBtn
ClickCaptionPlay ==
    /\ SetAudio(captionPlayBtnClick(Audio))
    /\ UNCHANGED <<restartTimers, dictationTimer, audioRest>>

\* click on the mic button of a text field, to begin dictating
ClickDictationMic ==
    /\ SetAudio(stopAudioFeatures("dictation",
                    IF voiceNavActive THEN voiceNavOff(Audio) ELSE Audio))
    /\ UNCHANGED <<restartTimers, dictationTimer, audioRest>>

\* voiceNavRecognition.onresult with a command; results arrive while the
\* recognition is started
VoiceCommand(cmd) ==
    /\ recognition["voiceNav"] # "idle"
    /\ SetAudio(onVoiceCommand(Audio, cmd))
    /\ dictationTimer' = (dictationTimer \/ cmd = "start dictation")
    /\ UNCHANGED <<restartTimers, audioRest>>

\* the timeout of 'start dictation' fires
DictationTimerFires ==
    /\ dictationTimer
    /\ SetAudio(startSTT(Audio))
    /\ dictationTimer' = FALSE
    /\ UNCHANGED <<restartTimers, audioRest>>

\* recognition.onend of feature f, sooner (quick) or later than one second
\* after its start
OnEnd(f, quick) ==
    /\ recognition[f] # "idle"
    /\ LET ended == [Audio EXCEPT !.recognition[f] = "idle"]
       IN  IF activeIn(ended, f) /\ quick
             THEN SetAudio(giveUp(ended, f)) /\ UNCHANGED restartTimers
           ELSE /\ SetAudio(ended)
                /\ restartTimers' = IF activeIn(ended, f)
                                      THEN restartTimers \cup {f}
                                      ELSE restartTimers
    /\ UNCHANGED <<dictationTimer, audioRest>>

\* recognition.onerror of feature f
OnError(f, err) ==
    /\ recognition[f] # "idle"
    /\ SetAudio(onRecognitionError(Audio, f, err))
    /\ UNCHANGED <<restartTimers, dictationTimer, audioRest>>

\* the restart timeout of feature f fires
RestartTimerFires(f) ==
    /\ f \in restartTimers
    /\ restartTimers' = restartTimers \ {f}
    /\ SetAudio(IF ~activeIn(Audio, f) THEN Audio
                ELSE IF recognition[f] = "idle"
                  THEN [Audio EXCEPT !.recognition[f] = "running"]
                ELSE giveUp(Audio, f))
    /\ UNCHANGED <<dictationTimer, audioRest>>

\* the two-minute session timer of speech-to-text fires
SttSessionTimeout ==
    /\ sttListening
    /\ SetAudio(stopSTT(Audio))
    /\ UNCHANGED <<restartTimers, dictationTimer, audioRest>>

\* executeGestureAction with action 'stop'
GestureStop ==
    /\ SetAudio(stopAudioFeatures(null, Audio))
    /\ UNCHANGED <<restartTimers, dictationTimer, audioRest>>

\* executeGestureAction with action 'start'
GestureStart(section) ==
    /\ SetAudio(onGestureStart(Audio, section))
    /\ UNCHANGED <<restartTimers, dictationTimer, audioRest>>

NextAudio ==
    \/ ClickSttMic
    \/ ClickVoiceNav
    \/ ClickCaptionPlay
    \/ ClickDictationMic
    \/ \E cmd \in Commands : VoiceCommand(cmd)
    \/ DictationTimerFires
    \/ \E f \in Features, quick \in BOOLEAN : OnEnd(f, quick)
    \/ \E f \in Features, err \in Errors : OnError(f, err)
    \/ \E f \in Features : RestartTimerFires(f)
    \/ SttSessionTimeout
    \/ GestureStop
    \/ \E section \in Sections : GestureStart(section)

SpecAudio == InitAudio /\ [][NextAudio]_vars

\* C20: at most one of sttListening, voiceNavActive and captionActive is
\* true, whatever mic clicks, voice-navigation and caption toggles, voice
\* commands and 'start' and 'stop' gestures occur.
C20_OneAudioFeature ==
    /\ ~(sttListening /\ voiceNavActive)
    /\ ~(sttListening /\ captionActive)
    /\ ~(voiceNavActive /\ captionActive)

\* captions took the microphone over from voice navigation, which had
\* taken it over from speech-to-text
C20_Witness ==
    /\ captionActive
    /\ recognition["caption"] = "running"
    /\ recognition["voiceNav"] = "stopping"
    /\ recognition["stt"] = "stopping"

(* ------------------ GestureModule of the dashboard -------------------- *)
\* GestureModule.classifyGesture: a finger is up when its tip is above its
\* PIP joint; the thumb is not looked at
GestureModule_classifyGesture(landmarks) ==
    LET indexUp == landmarks[8].y < landmarks[6].y
        middleUp == landmarks[12].y < landmarks[10].y
        ringUp == landmarks[16].y < landmarks[14].y
        pinkyUp == landmarks[20].y < landmarks[18].y
    IN  CASE indexUp /\ middleUp /\ ringUp /\ pinkyUp -> "open_palm"
          [] ~indexUp /\ ~middleUp /\ ~ringUp /\ ~pinkyUp -> "fist"
          [] indexUp /\ middleUp /\ ~ringUp /\ ~pinkyUp -> "two_fingers"
          [] OTHER -> null

\* handleGesture debouncing up to and including DEBOUNCE_MS
GestureModule_handleGesture_Inclusive(gesture, t, lastG, lastT) ==
    IF gesture = lastG /\ t - lastT <= DEBOUNCE_MS
      THEN [lastGesture |-> lastG, lastGestureTime |-> lastT, called |-> <<>>]
      ELSE [lastGesture |-> gesture, lastGestureTime |-> t,
            called |-> <<gesture>>]

\* GestureModule.handleGesture at Date.now() = t: the same gesture within
\* DEBOUNCE_MS returns; otherwise it is recorded, onGestureCallback is
\* called and 'gesture-command' is dispatched
GestureModule_handleGesture(gesture, t, lastG, lastT) ==
    IF gesture = lastG /\ t - lastT < DEBOUNCE_MS
      THEN [lastGesture |-> lastG, lastGestureTime |-> lastT, called |-> <<>>]
      ELSE [lastGesture |-> gesture, lastGestureTime |-> t,
            called |-> <<gesture>>]

\* GestureModule.onResults with a canvas: the hand of the frame, if any, is
\* classified and a recognised gesture is handled (maxNumHands is 1)
GestureModule_onResults(results, t, lastG, lastT) ==
    LET gesture == IF results = <<>> THEN null
                   ELSE GestureModule_classifyGesture(results[1])
    IN  IF gesture # null
          THEN [handled |-> <<gesture>>] @@
               GestureModule_handleGesture(gesture, t, lastG, lastT)
          ELSE [lastGesture |-> lastG, lastGestureTime |-> lastT,
                called |-> <<>>, handled |-> <<>>]

TwoFingersHand == HandOf(<<TRUE, TRUE, FALSE, FALSE>>, 3, 10, 5, 3, 20, TRUE)

\* the frames the detector reports to GestureModule
ModuleResults == {<<>>, <<PalmHand>>, <<FistHand>>, <<TwoFingersHand>>,
                  <<PinkyHand>>}

InitModule ==
    /\ gestureCamera = null
    /\ gestureBuffer = <<>>
    /\ confirmedGesture = null
    /\ lastGesture = ""
    /\ gestureDebounce = 0
    /\ now = 0
    /\ confirmedNow = <<>>
    /\ emitted = <<>>
    /\ hist = <<>>
    /\ log = <<>>
    /\ logging = TRUE
    /\ lastEmitAt = [n \in KnownNames |-> -1]
    /\ prevEmitAt = [n \in KnownNames |-> -1]
    /\ sessionEmits = FALSE
    /\ runEmits = 0
    /\ dropped = null
    /\ interrupted = FALSE
    /\ hand = <<>>
    /\ classified = <<>>
    /\ classifiedAgain = <<>>
    /\ classifiedAt = -1
    /\ gestureStream = null
    /\ eyeTrackingActive = FALSE
    /\ gestureStartShown = TRUE
    /\ startPc = [i \in 1..MaxStarts |-> "idle"]
    /\ cameras = [i \in 1..MaxStarts |-> "none"]
    /\ liveStreams = {}
    /\ gestureFrameCount = [i \in 1..MaxStarts |-> 0]
    /\ framesSeen = [i \in 1..MaxStarts |-> 0]
    /\ emitFrame = 0
    /\ inFlight = {}
    /\ stopped = FALSE
    /\ sttListening = FALSE
    /\ voiceNavActive = FALSE
    /\ captionActive = FALSE
    /\ recognition = [f \in {"stt", "voiceNav", "caption"} |-> "idle"]
    /\ restartTimers = {}
    /\ dictationTimer = FALSE
    /\ isDetecting = FALSE
    /\ camera = null
    /\ moduleLastGesture = null
    /\ lastGestureTime = 0
    /\ sending = FALSE
    /\ handled = <<>>
    /\ called = <<>>
    /\ calledSame = FALSE
    /\ calledAt = [g \in ModuleGestures |-> -1]
    /\ prevCalledAt = [g \in ModuleGestures |-> -1]

\* what GestureModule neither reads nor writes
moduleRest == <<gestureCamera, gestureBuffer, confirmedGesture, lastGesture,
                gestureDebounce, histVars, classVars, sessionVars, audioVars>>

\* startGestureDetection of the dashboard: GestureModule.init on the first
\* call creates the camera, then startDetection starts it
StartDetection ==
    /\ camera' = "started"
    /\ isDetecting' = TRUE
    /\ handled' = <<>>
    /\ called' = <<>>
    /\ calledSame' = FALSE
    /\ prevCalledAt' = calledAt
    /\ UNCHANGED <<now, moduleLastGesture, lastGestureTime, sending, calledAt,
                   moduleRest>>

\* stopGestureDetection: GestureModule.stopDetection
StopDetection ==
    /\ isDetecting' = FALSE
    /\ camera' = IF camera # null THEN "stopped" ELSE camera
    /\ handled' = <<>>
    /\ called' = <<>>
    /\ calledSame' = FALSE
    /\ prevCalledAt' = calledAt
    /\ UNCHANGED <<now, moduleLastGesture, lastGestureTime, sending, calledAt,
                   moduleRest>>

\* the started camera calls onFrame, which it awaits before the next frame:
\* while detecting, the frame is sent to the detector
ModuleOnFrame ==
    /\ camera = "started"
    /\ ~sending
    /\ sending' = isDetecting
    /\ handled' = <<>>
    /\ called' = <<>>
    /\ calledSame' = FALSE
    /\ prevCalledAt' = calledAt
    /\ UNCHANGED <<now, isDetecting, camera, moduleLastGesture,
                   lastGestureTime, calledAt, moduleRest>>

\* the detector reports the frame it was sent, d ms after the last report
ModuleOnResults(d, results) ==
    /\ sending
    /\ now + d <= MaxTime
    /\ LET r == GestureModule_onResults(results, now + d, moduleLastGesture,
                                        lastGestureTime)
       IN  /\ now' = now + d
           /\ sending' = FALSE
           /\ moduleLastGesture' = r.lastGesture
           /\ lastGestureTime' = r.lastGestureTime
           /\ handled' = r.handled
           /\ called' = r.called
           /\ calledSame' = (r.called # <<>> /\ r.called[1] = moduleLastGesture)
           /\ calledAt' = IF r.called # <<>>
                            THEN [calledAt EXCEPT ![r.called[1]] = now + d]
                            ELSE calledAt
           /\ prevCalledAt' = calledAt
    /\ UNCHANGED <<isDetecting, camera, moduleRest>>

\* C21: handleGesture passes the gesture to the callback exactly when it
\* differs from lastGesture or at least DEBOUNCE_MS have passed since
\* lastGestureTime, and otherwise leaves lastGesture and lastGestureTime as
\* they are; so the callback gets one gesture again and again while it is
\* classified on every frame, never less than DEBOUNCE_MS after it got that
\* gesture the last time.
C21_DebouncedCallback ==
    [][ handled' # <<>> =>
          LET g == handled'[1]
              passes == g # moduleLastGesture
                          \/ now' - lastGestureTime >= 1200
          IN  /\ g \in {"open_palm", "fist", "two_fingers"}
              /\ passes => called' = <<g>>
              /\ ~passes => /\ called' = <<>>
                            /\ moduleLastGesture' = moduleLastGesture
                            /\ lastGestureTime' = lastGestureTime
              /\ called' = <<g>> /\ g = moduleLastGesture
                   => /\ calledAt[g] >= 0
                      /\ now' - calledAt[g] >= 1200 ]_vars

\* the callback gets the gesture it got last, exactly DEBOUNCE_MS later
C21_Witness ==
    /\ called = <<"fist">>
    /\ calledSame
    /\ now - prevCalledAt["fist"] = 1200

\* C30: once stopDetection has returned and until startDetection is called,
\* the gesture callback is not invoked, even by the result of a frame that
\* was sent to the detector before the stop.
C30_NoCallbackAfterStop ==
    ~isDetecting => called = <<>>

NextModule ==
    \/ StartDetection
    \/ StopDetection
    \/ ModuleOnFrame
    \/ \E d \in Deltas, results \in ModuleResults : ModuleOnResults(d, results)

SpecModule == InitModule /\ [][NextModule]_vars

=============================================================================
